---- MODULE Spec2Model ----
(***************************************************************************)
(* HeartbeatData (hopperelec/HeartbeatsData): the heartbeat store, the     *)
(* timeout-based segmentation (calc_durations), the weekly occupancy       *)
(* counts (calc_duration_counts), legend and the plot entry points.        *)
(*                                                                         *)
(* The repository holds two copies of the module.  Both are modelled and   *)
(* driven in lockstep, one HeartbeatData object per copy receiving the     *)
(* same calls:                                                             *)
(*   "pkg"  = src/HeartbeatsData/heartbeats_data.py                        *)
(*   "root" = src/heartbeats_data.py                                       *)
(* add_hb and legend are the same code in both copies, so the heartbeat    *)
(* store is kept once; everything the copies compute differently is a      *)
(* function of the copy.                                                   *)
(*                                                                         *)
(* Python values: None is the empty tuple and a value x that may be None   *)
(* is held as <<x>>; a dict is the sequence of its <<key, value>> items in *)
(* insertion order; a datetime.date is its proleptic ordinal               *)
(* (date.toordinal()).  The numpy matrix duration_counts is held as the    *)
(* sequence of slice increments applied to the zero matrix, and Cell gives *)
(* the value of one cell.                                                  *)
(***************************************************************************)
EXTENDS Integers, Sequences, FiniteSets, TLC

\* ---------------------------------------------------------------- bounds
\* Longest heartbeat store explored.
MaxLen == 3

\* ------------------------------------------------------ program constants
_SECS_IN_MIN == 60
_MINS_IN_HOUR == 60
_SECS_IN_HOUR == _MINS_IN_HOUR * _SECS_IN_MIN
_HOURS_IN_DAY == 24
_SECS_IN_DAY == _SECS_IN_HOUR * _HOURS_IN_DAY
_DAYS_IN_WEEK == 7
DEFAULT_LEGEND_LENGTH == 10
DEFAULT_TIMEOUT == 15 * _SECS_IN_MIN
\* width of numpy.int16
Int16Bits == 16

Copies == {"pkg", "root"}

None == << >>
Some(x) == << x >>

\* ------------------------------------------------------------ input sets
\* 2024-01-01 (a Monday) and 2024-01-02, as date.toordinal().
Days == << 738886, 738887 >>
Monday == Days[1]
Tuesday == Days[2]
\* datetime values fed to add_hb: a gap of 900 s on the first day, the same
\* time of day and the last second of the day on the second.
At(d, h, mi, s) == [date |-> d, hour |-> h, minute |-> mi, second |-> s]
Timestamps == { At(Monday, 9, 0, 0), At(Monday, 9, 15, 0),
                At(Tuesday, 9, 0, 0), At(Tuesday, 23, 59, 59) }
HbTypes == {"A", ""}
Timeouts == {300, DEFAULT_TIMEOUT}
LegendLengths == {1, DEFAULT_LEGEND_LENGTH}

VARIABLES
    hb_type_counter,       \* Counter: sequence of <<hb_type, count>>, insertion order
    hb_types,              \* list of categories
    dates,                 \* list of dates
    secs_since_midnights,  \* list of seconds since midnight
    hb_type_color_map,     \* None, or <<keys of the dict in insertion order>>
    colors,                \* None, or <<list of colour indexes, one per heartbeat>>
    durations,             \* per copy: None, or <<dict date -> list of durations>>
    duration_counts,       \* per copy: None, or <<slice increments>>
    timeout_slider,        \* per copy: None, or <<which calc/plot pair the slider drives>>
    raised,                \* per copy: exception the last call ended with, or "none"
    dur_timeout,           \* per copy: None, or <<timeout of the last calc_durations>> while the store is unchanged since
    cnt_timeout            \* per copy: same for calc_duration_counts

store == << hb_type_counter, hb_types, dates, secs_since_midnights >>
vars == << hb_type_counter, hb_types, dates, secs_since_midnights,
           hb_type_color_map, colors, durations, duration_counts,
           timeout_slider, raised, dur_timeout, cnt_timeout >>

\* --------------------------------------------------------------- helpers
Min(a, b) == IF a < b THEN a ELSE b

\* zip(self.hb_types, self.dates, self.secs_since_midnights)
Zip(ts, ds, ss) ==
    [ i \in 1..Min(Len(ts), Min(Len(ds), Len(ss))) |->
        [hb_type |-> ts[i], date |-> ds[i], secs |-> ss[i]] ]

heartbeats == Zip(hb_types, dates, secs_since_midnights)

\* date.weekday(): Monday is 0
weekday(d) == (d + 6) % 7

\* timestamp.hour * _SECS_IN_HOUR + timestamp.minute * _SECS_IN_MIN + timestamp.second
SecsSinceMidnight(ts) ==
    ts.hour * _SECS_IN_HOUR + ts.minute * _SECS_IN_MIN + ts.second

\* Counter[hb_type] += 1
CounterIncrement(counter, hb_type) ==
    IF \E i \in 1..Len(counter) : counter[i][1] = hb_type
    THEN [ i \in 1..Len(counter) |->
             IF counter[i][1] = hb_type THEN << hb_type, counter[i][2] + 1 >>
                                        ELSE counter[i] ]
    ELSE Append(counter, << hb_type, 1 >>)

\* dict.setdefault(key, []).append(x)
SetDefaultAppend(dict, key, x) ==
    IF \E i \in 1..Len(dict) : dict[i][1] = key
    THEN [ i \in 1..Len(dict) |->
             IF dict[i][1] = key THEN << key, Append(dict[i][2], x) >>
                                 ELSE dict[i] ]
    ELSE Append(dict, << key, << x >> >>)

\* ----------------------------------------------------------------- Init
Init ==
    /\ hb_type_counter = << >>
    /\ hb_types = << >>
    /\ dates = << >>
    /\ secs_since_midnights = << >>
    /\ hb_type_color_map = None
    /\ colors = None
    /\ durations = [m \in Copies |-> None]
    /\ duration_counts = [m \in Copies |-> None]
    /\ timeout_slider = [m \in Copies |-> None]
    /\ raised = [m \in Copies |-> "none"]
    /\ dur_timeout = [m \in Copies |-> None]
    /\ cnt_timeout = [m \in Copies |-> None]

\* ------------------------------------------------------------ add_hb
\* The caller's contract (events are supplied in non-decreasing (date, second)
\* order): add_hb itself validates nothing.
Chronological(ds, ss) ==
    \A i \in 1..Len(ds) - 1 :
        \/ ds[i] < ds[i + 1]
        \/ ds[i] = ds[i + 1] /\ ss[i] <= ss[i + 1]

\* The heartbeat stays in order after the ones stored.
InOrder(timestamp) ==
    Chronological(Append(dates, timestamp.date),
                  Append(secs_since_midnights, SecsSinceMidnight(timestamp)))

\* The caller collects the heartbeats first and derives from them afterwards:
\* nothing has been derived yet.
Ingesting ==
    /\ colors = None
    /\ \A m \in Copies : durations[m] = None /\ duration_counts[m] = None

\* Invalidation of the bookkeeping of which timeout a cache was computed for.
StoreChanged ==
    /\ dur_timeout' = [m \in Copies |-> None]
    /\ cnt_timeout' = [m \in Copies |-> None]

add_hb(hb_type, timestamp) ==
    /\ Len(hb_types) < MaxLen
    /\ IF hb_type = ""
       THEN /\ hb_types' = Append(hb_types, "Other")
            /\ UNCHANGED hb_type_counter
       ELSE /\ hb_type_counter' = CounterIncrement(hb_type_counter, hb_type)
            /\ hb_types' = Append(hb_types, hb_type)
    /\ dates' = Append(dates, timestamp.date)
    /\ secs_since_midnights' = Append(secs_since_midnights, SecsSinceMidnight(timestamp))
    /\ raised' = [m \in Copies |-> "none"]
    /\ UNCHANGED << hb_type_color_map, colors, durations, duration_counts,
                    timeout_slider, dur_timeout, cnt_timeout >>

\* ------------------------------------------------------ calc_durations
\* Mutant: the dict of the previous call is kept and appended to.
KeepDurations(old) == IF old = None THEN << >> ELSE old[1]

\* self.durations = {}
ResetDurations(old) == << >>

\* Mutant: the end second is stored where the length belongs.
DurationOf_EndAsLength(curr_hb_type, curr_start, curr_end) ==
    << curr_hb_type, curr_start, curr_end >>

\* (curr_hb_type, curr_start, curr_end - curr_start)
DurationOf(curr_hb_type, curr_start, curr_end) ==
    << curr_hb_type, curr_start, curr_end - curr_start >>

\* Mutant: a gap of exactly the timeout starts a new run.
new_run_pkg_ge(hb, curr, timeout) ==
    \/ hb.hb_type # curr.hb_type
    \/ hb.date # curr.date
    \/ hb.secs >= curr.end + timeout

\* Mutant: the gap test is inverted.
new_run_pkg_inverted(hb, curr, timeout) ==
    \/ hb.hb_type # curr.hb_type
    \/ hb.date # curr.date
    \/ hb.secs <= curr.end + timeout

\* pkg: hb_type != curr_hb_type or hb_date != curr_date
\*      or secs_since_midnight > curr_end + timeout
new_run_pkg(hb, curr, timeout) ==
    \/ hb.hb_type # curr.hb_type
    \/ hb.date # curr.date
    \/ hb.secs > curr.end + timeout

\* Mutant: the root copy does not compare the dates.
new_run_root_nodate(hb, curr, timeout) ==
    \/ Some(hb.hb_type) # curr.hb_type
    \/ hb.secs > curr.end + timeout

\* root: the same test, curr_hb_type and curr_date starting as None
new_run_root(hb, curr, timeout) ==
    \/ Some(hb.hb_type) # curr.hb_type
    \/ Some(hb.date) # curr.date
    \/ hb.secs > curr.end + timeout

RECURSIVE durations_loop_pkg(_, _, _, _, _)
durations_loop_pkg(hbs, i, curr, acc, timeout) ==
    IF i > Len(hbs) THEN acc
    ELSE LET hb == hbs[i]
             new == new_run_pkg(hb, curr, timeout)
         IN durations_loop_pkg(hbs, i + 1,
                IF new THEN [hb_type |-> hb.hb_type, date |-> hb.date,
                             start |-> hb.secs, end |-> hb.secs]
                       ELSE [curr EXCEPT !.end = hb.secs],
                IF new THEN SetDefaultAppend(acc, curr.date,
                                DurationOf(curr.hb_type, curr.start, curr.end))
                       ELSE acc,
                timeout)

\* pkg: the first heartbeat is taken with next() before the loop
calc_durations_pkg(old, hbs, timeout) ==
    IF Len(hbs) = 0
    THEN [durations |-> ResetDurations(old), raised |-> "StopIteration"]
    ELSE [durations |->
             durations_loop_pkg(hbs, 2,
                 [hb_type |-> hbs[1].hb_type, date |-> hbs[1].date,
                  start |-> hbs[1].secs, end |-> hbs[1].secs],
                 ResetDurations(old), timeout),
          raised |-> "none"]

\* root: if curr_hb_type is not None
has_run_root(curr_hb_type) == curr_hb_type # None

RECURSIVE durations_loop_root(_, _, _, _, _)
durations_loop_root(hbs, i, curr, acc, timeout) ==
    IF i > Len(hbs) THEN acc
    ELSE LET hb == hbs[i]
             new == new_run_root(hb, curr, timeout)
         IN durations_loop_root(hbs, i + 1,
                IF new THEN [hb_type |-> Some(hb.hb_type), date |-> Some(hb.date),
                             start |-> hb.secs, end |-> hb.secs]
                       ELSE [curr EXCEPT !.end = hb.secs],
                IF new /\ has_run_root(curr.hb_type)
                THEN SetDefaultAppend(acc, curr.date[1],
                         DurationOf(curr.hb_type[1], curr.start, curr.end))
                ELSE acc,
                timeout)

calc_durations_root(old, hbs, timeout) ==
    [durations |->
        durations_loop_root(hbs, 1,
            [hb_type |-> None, date |-> None, start |-> 0, end |-> 0],
            ResetDurations(old), timeout),
     raised |-> "none"]

calc_durations_of(m, old, hbs, timeout) ==
    IF m = "pkg" THEN calc_durations_pkg(old, hbs, timeout)
                 ELSE calc_durations_root(old, hbs, timeout)

calc_durations(timeout) ==
    /\ durations' = [m \in Copies |->
           Some(calc_durations_of(m, durations[m], heartbeats, timeout).durations)]
    /\ raised' = [m \in Copies |->
           calc_durations_of(m, durations[m], heartbeats, timeout).raised]
    /\ dur_timeout' = [m \in Copies |-> Some(timeout)]
    /\ UNCHANGED << store, hb_type_color_map, colors, duration_counts,
                    timeout_slider, cnt_timeout >>

\* ------------------------------------------------ calc_duration_counts
\* zeros((_DAYS_IN_WEEK, _SECS_IN_DAY - 1)): no increment applied yet
ResetCounts(old) == << >>

\* number of columns of the matrix
Columns == _SECS_IN_DAY - 1

\* duration_counts[row, start:stop] += 1
SliceIncrement(matrix, row, start, stop) ==
    Append(matrix, [row |-> row, start |-> start, stop |-> stop])

\* numpy slicing clips start:stop to the axis
Covers(inc, row, col) ==
    /\ inc.row = row
    /\ inc.start <= col
    /\ col < inc.stop
    /\ col < Columns

\* numpy.int16 arithmetic: two's complement wrap-around
WrapInt16(x) ==
    ((x + 2 ^ (Int16Bits - 1)) % (2 ^ Int16Bits)) - 2 ^ (Int16Bits - 1)

\* value of one cell: pkg holds numpy.int16, root holds float64
Cell(m, matrix, row, col) ==
    LET n == Cardinality({ k \in 1..Len(matrix) : Covers(matrix[k], row, col) })
    IN IF m = "pkg" THEN WrapInt16(n) ELSE n

\* pkg: hb_date != curr_date or secs_since_midnight > curr_end + timeout
new_count_run_pkg(hb, curr, timeout) ==
    \/ hb.date # curr.date
    \/ hb.secs > curr.end + timeout

\* root: the same test, curr_date starting as None
new_count_run_root(hb, curr, timeout) ==
    \/ Some(hb.date) # curr.date
    \/ hb.secs > curr.end + timeout

RECURSIVE counts_loop_pkg(_, _, _, _, _)
counts_loop_pkg(hbs, i, curr, acc, timeout) ==
    IF i > Len(hbs) THEN acc
    ELSE LET hb == hbs[i]
             new == new_count_run_pkg(hb, curr, timeout)
         IN counts_loop_pkg(hbs, i + 1,
                IF new THEN [date |-> hb.date, start |-> hb.secs, end |-> hb.secs]
                       ELSE [curr EXCEPT !.end = hb.secs],
                IF new THEN SliceIncrement(acc, weekday(curr.date),
                                           curr.start, curr.end + 1)
                       ELSE acc,
                timeout)

calc_duration_counts_pkg(old, hbs, timeout) ==
    IF Len(hbs) = 0
    THEN [duration_counts |-> ResetCounts(old), raised |-> "StopIteration"]
    ELSE [duration_counts |->
             counts_loop_pkg(hbs, 2,
                 [date |-> hbs[1].date, start |-> hbs[1].secs, end |-> hbs[1].secs],
                 ResetCounts(old), timeout),
          raised |-> "none"]

\* root: if curr_date is not None
has_count_run_root(curr_date) == curr_date # None

RECURSIVE counts_loop_root(_, _, _, _, _)
counts_loop_root(hbs, i, curr, acc, timeout) ==
    IF i > Len(hbs) THEN acc
    ELSE LET hb == hbs[i]
             new == new_count_run_root(hb, curr, timeout)
         IN counts_loop_root(hbs, i + 1,
                IF new THEN [date |-> Some(hb.date), start |-> hb.secs, end |-> hb.secs]
                       ELSE [curr EXCEPT !.end = hb.secs],
                IF new /\ has_count_run_root(curr.date)
                THEN SliceIncrement(acc, weekday(curr.date[1]),
                                    curr.start, curr.end + 1)
                ELSE acc,
                timeout)

calc_duration_counts_root(old, hbs, timeout) ==
    [duration_counts |->
        counts_loop_root(hbs, 1, [date |-> None, start |-> 0, end |-> 0],
                         ResetCounts(old), timeout),
     raised |-> "none"]

calc_duration_counts_of(m, old, hbs, timeout) ==
    IF m = "pkg" THEN calc_duration_counts_pkg(old, hbs, timeout)
                 ELSE calc_duration_counts_root(old, hbs, timeout)

calc_duration_counts(timeout) ==
    /\ duration_counts' = [m \in Copies |->
           Some(calc_duration_counts_of(m, duration_counts[m], heartbeats,
                                        timeout).duration_counts)]
    /\ raised' = [m \in Copies |->
           calc_duration_counts_of(m, duration_counts[m], heartbeats, timeout).raised]
    /\ cnt_timeout' = [m \in Copies |-> Some(timeout)]
    /\ UNCHANGED << store, hb_type_color_map, colors, durations,
                    timeout_slider, dur_timeout >>

\* ---------------------------------------------------------------- legend
\* Counter.most_common(n): the n entries with the highest counts, ties in
\* insertion order; nothing for n <= 0.
most_common(counter, n) ==
    LET rank(i) == Cardinality({ j \in 1..Len(counter) :
                        \/ counter[j][2] > counter[i][2]
                        \/ counter[j][2] = counter[i][2] /\ j < i })
    IN [ k \in 1..(IF n <= 0 THEN 0 ELSE Min(n, Len(counter))) |->
           counter[CHOOSE i \in 1..Len(counter) : rank(i) = k - 1] ]

\* hb_type in self.hb_type_color_map
InColorMap(color_map, hb_type) ==
    \E i \in 1..Len(color_map) : color_map[i][1] = hb_type

\* dict[key] = value
DictSet(dict, key, value) ==
    IF \E i \in 1..Len(dict) : dict[i][1] = key
    THEN [ i \in 1..Len(dict) |->
             IF dict[i][1] = key THEN << key, value >> ELSE dict[i] ]
    ELSE Append(dict, << key, value >>)

\* {other_name: color_map[0]}, then color_map[i + 1] for the i-th most common type
RECURSIVE BuildColorMap(_, _, _)
BuildColorMap(common, i, acc) ==
    IF i > Len(common) THEN acc
    ELSE BuildColorMap(common, i + 1, DictSet(acc, common[i][1], i))

\* self.hb_type_color_map.get(hb_type, color_map[0])
ColorOf(color_map, hb_type) ==
    IF InColorMap(color_map, hb_type)
    THEN (CHOOSE e \in { color_map[i] : i \in 1..Len(color_map) } : e[1] = hb_type)[2]
    ELSE 0

\* if hb_type not in self.hb_type_color_map: self.hb_types[i] = other_name
Relabel(color_map, types, other_name) ==
    [ i \in 1..Len(types) |->
        IF InColorMap(color_map, types[i]) THEN types[i] ELSE other_name ]

legend(legend_length, other_name) ==
    LET color_map == BuildColorMap(most_common(hb_type_counter, legend_length - 1), 1,
                                   << << other_name, 0 >> >>)
        relabelled == Relabel(color_map, hb_types, other_name)
    IN /\ hb_type_color_map' = Some(color_map)
       /\ hb_types' = relabelled
       /\ colors' = Some([ i \in 1..Len(relabelled) |-> ColorOf(color_map, relabelled[i]) ])
       /\ raised' = [m \in Copies |-> "none"]
       /\ IF relabelled = hb_types
          THEN UNCHANGED << dur_timeout, cnt_timeout >>
          ELSE StoreChanged
       /\ UNCHANGED << hb_type_counter, dates, secs_since_midnights,
                       durations, duration_counts, timeout_slider >>

\* ----------------------------------------------------------------- plots
\* plot_dates, plot_times and ax.scatter act on the figure only.
plot_scatter ==
    /\ raised' = [m \in Copies |-> "none"]
    /\ UNCHANGED << store, hb_type_color_map, colors, durations, duration_counts,
                    timeout_slider, dur_timeout, cnt_timeout >>

\* pkg refresh: if self.durations is None: raise ValueError(...)
durations_uncomputed_pkg(d) == d = None

\* Mutant: the guard of the root copy is missing.
durations_never_uncomputed(d) == FALSE

\* root plot_durations: if self.durations is None: raise ValueError(...)
durations_uncomputed_root(d) == d = None

\* self.hb_type_color_map[duration[0]] for every duration, when colors are set
FaceColorsFail(d) ==
    /\ colors # None
    /\ \E i \in 1..Len(d) : \E k \in 1..Len(d[i][2]) :
           ~ InColorMap(hb_type_color_map[1], d[i][2][k][1])

\* refresh() of plot_durations: the exception it ends with
refresh_durations_pkg(d) ==
    IF durations_uncomputed_pkg(d) THEN "ValueError"
    ELSE IF FaceColorsFail(d[1]) THEN "KeyError"
    ELSE "none"

\* root: refresh() reads self.durations.items() unguarded
refresh_durations_root(d) ==
    IF d = None THEN "AttributeError"
    ELSE IF FaceColorsFail(d[1]) THEN "KeyError"
    ELSE "none"

\* the non-slider branch of plot_durations
plain_plot_durations(m, d) ==
    IF m = "pkg" THEN refresh_durations_pkg(d)
    ELSE IF durations_uncomputed_root(d) THEN "ValueError"
    ELSE refresh_durations_root(d)

refresh_durations_of(m, d) ==
    IF m = "pkg" THEN refresh_durations_pkg(d) ELSE refresh_durations_root(d)

\* pkg refresh: if self.duration_counts is None: raise ValueError(...)
counts_uncomputed_pkg(c) == c = None

\* root plot_duration_counts: if self.duration_counts is None: raise ValueError(...)
counts_uncomputed_root(c) == c = None

refresh_counts_pkg(c) ==
    IF counts_uncomputed_pkg(c) THEN "ValueError" ELSE "none"

\* root: refresh() calls self.duration_counts.flatten() or npsum unguarded
refresh_counts_root(c) ==
    IF c = None THEN "AttributeError" ELSE "none"

plain_plot_duration_counts(m, c) ==
    IF m = "pkg" THEN refresh_counts_pkg(c)
    ELSE IF counts_uncomputed_root(c) THEN "ValueError"
    ELSE refresh_counts_root(c)

refresh_counts_of(m, c) ==
    IF m = "pkg" THEN refresh_counts_pkg(c) ELSE refresh_counts_root(c)

\* calc_fn(timeout) then plot_fn(): the exception the pair ends with
CalcThenPlot(calc_raised, plot_raised) ==
    IF calc_raised # "none" THEN calc_raised ELSE plot_raised

plot_durations(slider) ==
    IF slider
    THEN \* show_timeout_slider(self.calc_durations, refresh): calc_fn(default), plot_fn(), Slider
         LET r(m) == calc_durations_of(m, durations[m], heartbeats, DEFAULT_TIMEOUT)
             e(m) == CalcThenPlot(r(m).raised, refresh_durations_of(m, Some(r(m).durations)))
         IN /\ durations' = [m \in Copies |-> Some(r(m).durations)]
            /\ raised' = [m \in Copies |-> e(m)]
            /\ timeout_slider' = [m \in Copies |->
                   IF e(m) = "none" THEN Some("durations") ELSE timeout_slider[m]]
            /\ dur_timeout' = [m \in Copies |-> Some(DEFAULT_TIMEOUT)]
            /\ UNCHANGED << store, hb_type_color_map, colors, duration_counts, cnt_timeout >>
    ELSE /\ raised' = [m \in Copies |-> plain_plot_durations(m, durations[m])]
         /\ UNCHANGED << store, hb_type_color_map, colors, durations, duration_counts,
                         timeout_slider, dur_timeout, cnt_timeout >>

plot_duration_counts(slider) ==
    IF slider
    THEN LET r(m) == calc_duration_counts_of(m, duration_counts[m], heartbeats, DEFAULT_TIMEOUT)
             e(m) == CalcThenPlot(r(m).raised,
                                  refresh_counts_of(m, Some(r(m).duration_counts)))
         IN /\ duration_counts' = [m \in Copies |-> Some(r(m).duration_counts)]
            /\ raised' = [m \in Copies |-> e(m)]
            /\ timeout_slider' = [m \in Copies |->
                   IF e(m) = "none" THEN Some("duration_counts") ELSE timeout_slider[m]]
            /\ cnt_timeout' = [m \in Copies |-> Some(DEFAULT_TIMEOUT)]
            /\ UNCHANGED << store, hb_type_color_map, colors, durations, dur_timeout >>
    ELSE /\ raised' = [m \in Copies |-> plain_plot_duration_counts(m, duration_counts[m])]
         /\ UNCHANGED << store, hb_type_color_map, colors, durations, duration_counts,
                         timeout_slider, dur_timeout, cnt_timeout >>

\* The slider's on_changed callback, refresh(timeout) of show_timeout_slider:
\* calc_fn(timeout), ax.clear(), plot_fn().  It runs on the objects that hold a slider.
slider_changed(timeout) ==
    /\ \E m \in Copies : timeout_slider[m] # None
    /\ LET on(m) == timeout_slider[m] # None
           drvD(m) == on(m) /\ timeout_slider[m] = Some("durations")
           drvC(m) == on(m) /\ timeout_slider[m] = Some("duration_counts")
           rd(m) == calc_durations_of(m, durations[m], heartbeats, timeout)
           rc(m) == calc_duration_counts_of(m, duration_counts[m], heartbeats, timeout)
       IN /\ durations' = [m \in Copies |->
                 IF drvD(m) THEN Some(rd(m).durations) ELSE durations[m]]
          /\ duration_counts' = [m \in Copies |->
                 IF drvC(m) THEN Some(rc(m).duration_counts) ELSE duration_counts[m]]
          /\ dur_timeout' = [m \in Copies |->
                 IF drvD(m) THEN Some(timeout) ELSE dur_timeout[m]]
          /\ cnt_timeout' = [m \in Copies |->
                 IF drvC(m) THEN Some(timeout) ELSE cnt_timeout[m]]
          /\ raised' = [m \in Copies |->
                 IF drvD(m)
                 THEN CalcThenPlot(rd(m).raised,
                                   refresh_durations_of(m, Some(rd(m).durations)))
                 ELSE IF drvC(m)
                 THEN CalcThenPlot(rc(m).raised,
                                   refresh_counts_of(m, Some(rc(m).duration_counts)))
                 ELSE raised[m]]
    /\ UNCHANGED << store, hb_type_color_map, colors, timeout_slider >>

\* ------------------------------------------------------------------ Next
Next ==
    \/ \E hb_type \in HbTypes, timestamp \in Timestamps :
           Ingesting /\ InOrder(timestamp) /\ add_hb(hb_type, timestamp)
    \/ \E timeout \in Timeouts : calc_durations(timeout)
    \/ \E timeout \in Timeouts : calc_duration_counts(timeout)
    \/ \E legend_length \in LegendLengths : legend(legend_length, "Other")
    \/ plot_scatter
    \/ \E slider \in BOOLEAN : plot_durations(slider)
    \/ \E slider \in BOOLEAN : plot_duration_counts(slider)
    \/ \E timeout \in Timeouts : slider_changed(timeout)

Spec == Init /\ [][Next]_vars

\* The computations alone, on heartbeats appended in any order.
NextAnyOrder ==
    \/ \E hb_type \in HbTypes, timestamp \in Timestamps :
           Ingesting /\ add_hb(hb_type, timestamp)
    \/ \E timeout \in Timeouts : calc_durations(timeout)
    \/ \E timeout \in Timeouts : calc_duration_counts(timeout)

SpecAnyOrder == Init /\ [][NextAnyOrder]_vars

\* ============================================================ properties
\* What the claims speak of, stated from the heartbeat stream alone.

\* Event i (i >= 2) does not continue the run of event i - 1.
Boundary(hbs, i, timeout) ==
    \/ hbs[i].hb_type # hbs[i - 1].hb_type
    \/ hbs[i].date # hbs[i - 1].date
    \/ hbs[i].secs > hbs[i - 1].secs + timeout

\* The same with the category ignored (the occupancy pass).
CountBoundary(hbs, i, timeout) ==
    \/ hbs[i].date # hbs[i - 1].date
    \/ hbs[i].secs > hbs[i - 1].secs + timeout

\* First event of the run that event e belongs to.
RunStart(hbs, e, timeout) ==
    CHOOSE j \in 1..e :
        /\ j = 1 \/ Boundary(hbs, j, timeout)
        /\ \A k \in (j + 1)..e : ~ Boundary(hbs, k, timeout)

CountRunStart(hbs, e, timeout) ==
    CHOOSE j \in 1..e :
        /\ j = 1 \/ CountBoundary(hbs, j, timeout)
        /\ \A k \in (j + 1)..e : ~ CountBoundary(hbs, k, timeout)

\* Last events of the runs that a later event closes, and of all runs.
ClosedEnds(hbs, timeout) ==
    { e \in 1..(Len(hbs) - 1) : Boundary(hbs, e + 1, timeout) }
AllEnds(hbs, timeout) ==
    ClosedEnds(hbs, timeout) \cup (IF Len(hbs) > 0 THEN {Len(hbs)} ELSE {})
AllCountEnds(hbs, timeout) ==
    { e \in 1..(Len(hbs) - 1) : CountBoundary(hbs, e + 1, timeout) }
        \cup (IF Len(hbs) > 0 THEN {Len(hbs)} ELSE {})

Ascending(S) ==
    [ k \in 1..Cardinality(S) |->
        CHOOSE x \in S : Cardinality({ y \in S : y < x }) = k - 1 ]

\* The runs ending at `ends` that lie on date d, in stream order.
RunsOn(hbs, timeout, ends, d) ==
    LET es == Ascending({ e \in ends : hbs[e].date = d })
    IN [ k \in 1..Len(es) |->
           << hbs[es[k]].hb_type,
              hbs[RunStart(hbs, es[k], timeout)].secs,
              hbs[es[k]].secs - hbs[RunStart(hbs, es[k], timeout)].secs >> ]

Keys(dict) == { dict[i][1] : i \in 1..Len(dict) }
DurationsOn(dict, d) ==
    IF d \in Keys(dict)
    THEN (CHOOSE e \in { dict[i] : i \in 1..Len(dict) } : e[1] = d)[2]
    ELSE << >>

\* The dict holds exactly the runs ending at `ends`, each under its date.
HoldsRuns(dict, hbs, timeout, ends) ==
    /\ Keys(dict) = { hbs[e].date : e \in ends }
    /\ \A d \in Keys(dict) : DurationsOn(dict, d) = RunsOn(hbs, timeout, ends, d)

RECURSIVE SumCells(_)
SumCells(matrix) ==
    IF matrix = << >> THEN 0
    ELSE LET inc == matrix[Len(matrix)]
             width == Min(inc.stop, Columns) - inc.start
         IN SumCells(SubSeq(matrix, 1, Len(matrix) - 1))
              + (IF width > 0 THEN width ELSE 0)

RECURSIVE SumOver(_, _, _)
SumOver(hbs, timeout, ends) ==
    IF ends = {} THEN 0
    ELSE LET e == CHOOSE x \in ends : TRUE
         IN hbs[e].secs - hbs[CountRunStart(hbs, e, timeout)].secs + 1
              + SumOver(hbs, timeout, ends \ {e})

\* The durations (the counts) of copy m were computed from the store as it is.
DurFresh(m) == dur_timeout[m] # None /\ durations[m] # None
CntFresh(m) == cnt_timeout[m] # None /\ duration_counts[m] # None

\* C1: after calc_durations on a non-empty chronological store, the durations
\* of each date are exactly the maximal runs, the last run of the stream included.
C1_AllRunsEmitted ==
    \A m \in Copies :
        (DurFresh(m) /\ Len(heartbeats) > 0) =>
            HoldsRuns(durations[m][1], heartbeats, dur_timeout[m][1],
                      AllEnds(heartbeats, dur_timeout[m][1]))

C3_CellSum ==
    \A m \in Copies : CntFresh(m) =>
        SumCells(duration_counts[m][1])
            = SumOver(heartbeats, cnt_timeout[m][1],
                      AllCountEnds(heartbeats, cnt_timeout[m][1]))

\* C4: recomputing with a larger timeout on the same store never gives a date
\* more durations.
C4_Monotone ==
    [][ \A m \in Copies :
          ( /\ DurFresh(m) /\ DurFresh(m)'
            /\ dur_timeout'[m][1] > dur_timeout[m][1] )
          => \A d \in Keys(durations[m][1]) \cup Keys(durations'[m][1]) :
                 Len(DurationsOn(durations'[m][1], d))
                     <= Len(DurationsOn(durations[m][1], d)) ]_vars

C4_Witness ==
    \E m \in Copies :
        /\ DurFresh(m)
        /\ dur_timeout[m][1] = DEFAULT_TIMEOUT
        /\ \E d \in Keys(durations[m][1]) :
               Len(DurationsOn(durations[m][1], d))
                 < Len(DurationsOn(
                       calc_durations_of(m, None, heartbeats, 300).durations, d))

\* C5: whatever calls came before, the durations (the counts) are those of a
\* single call, with the timeout used last, on an object that computed nothing yet.
C5_FromScratch ==
    \A m \in Copies :
        /\ DurFresh(m) =>
             durations[m] = Some(calc_durations_of(m, None, heartbeats,
                                                   dur_timeout[m][1]).durations)
        /\ CntFresh(m) =>
             \A row \in 0..(_DAYS_IN_WEEK - 1) :
               \A col \in { hbs.secs : hbs \in { heartbeats[i] : i \in 1..Len(heartbeats) } } :
                 Cell(m, duration_counts[m][1], row, col)
                   = Cell(m, calc_duration_counts_of(m, None, heartbeats,
                                 cnt_timeout[m][1]).duration_counts, row, col)

\* a slider exists, so its default timeout was computed before the 300 in force now
C5_Witness ==
    \E m \in Copies :
        /\ timeout_slider[m] = Some("durations")
        /\ DurFresh(m) /\ dur_timeout[m][1] = 300
        /\ CntFresh(m) /\ duration_counts[m][1] # << >>
        /\ durations[m][1] # << >>
        /\ durations[m] # Some(calc_durations_of(m, None, heartbeats,
                                                 DEFAULT_TIMEOUT).durations)

\* C6: every step leaves the three sequences alone or appends one element to
\* each, and they are always equally long.
C6_AppendOnly ==
    [][ /\ Len(hb_types') = Len(dates') /\ Len(dates') = Len(secs_since_midnights')
        /\ \/ /\ hb_types' = hb_types
              /\ dates' = dates
              /\ secs_since_midnights' = secs_since_midnights
           \/ /\ Len(hb_types') = Len(hb_types) + 1
              /\ SubSeq(hb_types', 1, Len(hb_types)) = hb_types
              /\ SubSeq(dates', 1, Len(dates)) = dates
              /\ SubSeq(secs_since_midnights', 1, Len(secs_since_midnights))
                     = secs_since_midnights ]_vars

C8_NewRunIff ==
    \A m \in Copies :
        (DurFresh(m) /\ Len(heartbeats) > 0) =>
            HoldsRuns(durations[m][1], heartbeats, dur_timeout[m][1],
                      ClosedEnds(heartbeats, dur_timeout[m][1]))

\* a gap of exactly the timeout continued a run, which a category change at
\* gap zero then closed
C8_Witness ==
    \E m \in Copies :
        /\ DurFresh(m)
        /\ Len(heartbeats) = 3
        /\ heartbeats[2].secs = heartbeats[1].secs + dur_timeout[m][1]
        /\ heartbeats[3].secs = heartbeats[2].secs
        /\ heartbeats[3].date = heartbeats[2].date
        /\ heartbeats[3].hb_type # heartbeats[2].hb_type
        /\ durations[m][1] =
             << << heartbeats[1].date,
                   << << heartbeats[1].hb_type, heartbeats[1].secs,
                         dur_timeout[m][1] >> >> >> >>

\* C9: on an empty store both calc calls complete, leaving an empty mapping
\* and an all-zero matrix.
C9_EmptyCompletes ==
    [][ \A timeout \in Timeouts :
          /\ (Len(hb_types) = 0 /\ calc_durations(timeout)) =>
                \A m \in Copies : raised'[m] = "none" /\ durations'[m] = Some(<< >>)
          /\ (Len(hb_types) = 0 /\ calc_duration_counts(timeout)) =>
                \A m \in Copies : raised'[m] = "none" /\ duration_counts'[m] = Some(<< >>)
      ]_vars

\* C10: on a non-empty store, in whatever order it was appended, the two copies
\* hold the same durations, keys and lists in the same order, and cell-wise
\* equal counts.
C10_CopiesAgree ==
    Len(heartbeats) > 0 =>
        /\ durations["pkg"] = durations["root"]
        /\ (duration_counts["pkg"] = None) <=> (duration_counts["root"] = None)
        /\ duration_counts["pkg"] # None /\ duration_counts["root"] # None =>
             \A row \in 0..(_DAYS_IN_WEEK - 1) :
               \A col \in { hbs.secs : hbs \in { heartbeats[i] : i \in 1..Len(heartbeats) } } :
                 Cell("pkg", duration_counts["pkg"][1], row, col)
                   = Cell("root", duration_counts["root"][1], row, col)

C10_Witness ==
    /\ Len(heartbeats) > 0
    /\ ~ Chronological(dates, secs_since_midnights)
    /\ \A m \in Copies :
         /\ DurFresh(m) /\ Len(durations[m][1]) = 2
         /\ CntFresh(m) /\ Len(duration_counts[m][1]) = 2

====
